---- MODULE Spec2Model ----
(***************************************************************************)
(* QuantMentor: the long/flat backtest pipeline (backtest_scaffold.py,     *)
(* backtest_scaffold_plus.py) and the Sharpe statistics                    *)
(* (sharpe_demo.py, sharpe_demo_plus.py).                                  *)
(*                                                                         *)
(* Numbers.  The program computes in IEEE doubles through pandas/numpy.    *)
(* The model computes in exact arithmetic over the values a column or a    *)
(* metric can hold:                                                        *)
(*   k = "num"   the real  n/d + ln(la/lb)   (d > 0, la, lb > 0, both      *)
(*               fractions in lowest terms; la = lb = 1 when no logarithm  *)
(*               is involved),                                             *)
(*   k = "surd"  the real  sgn(n/d) * sqrt(|n/d|)  (a standard deviation,  *)
(*               or a ratio to one: n/d is the signed square),             *)
(*   k = "nan", "pinf", "ninf"   the IEEE special values,                  *)
(*   k = "irr"   a real number that this representation does not track     *)
(*               (a statistic of logarithmic returns).                     *)
(* Rounding error of the doubles is outside the model.                     *)
(***************************************************************************)
EXTENDS Integers, Sequences, FiniteSets, TLC

\* ------------------------------------------------------------ integers
Abs(x) == IF x < 0 THEN -x ELSE x

Sgn(x) == IF x < 0 THEN -1 ELSE IF x > 0 THEN 1 ELSE 0

RECURSIVE GCD(_, _)
GCD(a, b) == IF b = 0 THEN a ELSE GCD(b, a % b)

\* ------------------------------------------------------------ values
NaN == [k |-> "nan", n |-> 0, d |-> 1, la |-> 1, lb |-> 1]

PInf == [k |-> "pinf", n |-> 0, d |-> 1, la |-> 1, lb |-> 1]

NInf == [k |-> "ninf", n |-> 0, d |-> 1, la |-> 1, lb |-> 1]

Irr == [k |-> "irr", n |-> 0, d |-> 1, la |-> 1, lb |-> 1]

\* the value n/d + ln(la/lb) of kind kd, in lowest terms (d # 0, la, lb > 0)
Mk(kd, n, d, la, lb) ==
    LET g == GCD(Abs(n), Abs(d))
        s == IF d < 0 THEN -1 ELSE 1
        h == GCD(la, lb)
    IN  [k |-> kd, n |-> (s * n) \div g, d |-> (s * d) \div g,
         la |-> la \div h, lb |-> lb \div h]

Rat(n, d) == Mk("num", n, d, 1, 1)

Int2V(i) == Rat(i, 1)

Zero == Rat(0, 1)

One == Rat(1, 1)

IsNaN(v) == v.k = "nan"

IsInf(v) == v.k \in {"pinf", "ninf"}

HasLn(v) == v.la # v.lb

\* a rational number, nothing else
IsPure(v) == v.k = "num" /\ ~HasLn(v)

\* a value whose sign and magnitude the model knows
IsTracked(v) == v.k \in {"nan", "pinf", "ninf", "surd"} \/ IsPure(v)

IsZero(v) == v.k \in {"num", "surd"} /\ v.n = 0 /\ ~HasLn(v)

\* sign of a tracked value that is not NaN
SignOf(v) == IF v.k = "pinf" THEN 1 ELSE IF v.k = "ninf" THEN -1 ELSE Sgn(v.n)

InfOfSign(s) == IF s > 0 THEN PInf ELSE NInf

\* ---------------------------------------------- exact rational helpers
\* a/b < c/d for b, d > 0, by continued fractions (no cross product)
RECURSIVE FracLt(_, _, _, _)
FracLt(a, b, c, d) ==
    LET qa == a \div b
        qc == c \div d
        ra == a % b
        rc == c % d
    IN  IF qa # qc THEN qa < qc
        ELSE IF rc = 0 THEN FALSE
        ELSE IF ra = 0 THEN TRUE
        ELSE FracLt(d, rc, b, ra)

\* n1/d1 + n2/d2 over the least common denominator
FracAdd(n1, d1, n2, d2) ==
    LET g == GCD(d1, d2)
    IN  Rat(n1 * (d2 \div g) + n2 * (d1 \div g), (d1 \div g) * d2)

\* (n1/d1) * (n2/d2), cancelling across before multiplying
FracMul(n1, d1, n2, d2) ==
    LET g1 == GCD(Abs(n1), d2)
        g2 == GCD(Abs(n2), d1)
        a1 == IF g1 = 0 THEN 1 ELSE g1
        a2 == IF g2 = 0 THEN 1 ELSE g2
    IN  Rat((n1 \div a1) * (n2 \div a2), (d1 \div a2) * (d2 \div a1))

\* the signed square of a rational or a surd: sgn(x) * x^2
SignedSq(v) ==
    IF v.k = "surd" THEN Rat(v.n, v.d)
    ELSE LET q == FracMul(v.n, v.d, v.n, v.d) IN Rat(Sgn(v.n) * q.n, q.d)

\* ------------------------------------------------- float arithmetic
VNeg(x) ==
    IF x.k = "pinf" THEN NInf
    ELSE IF x.k = "ninf" THEN PInf
    ELSE IF x.k \in {"nan", "irr"} THEN x
    ELSE Mk(x.k, -x.n, x.d, x.lb, x.la)

VAdd(x, y) ==
    IF IsNaN(x) \/ IsNaN(y) THEN NaN
    ELSE IF IsInf(x) /\ IsInf(y) THEN (IF x.k = y.k THEN x ELSE NaN)
    ELSE IF IsInf(x) THEN x
    ELSE IF IsInf(y) THEN y
    ELSE IF x.k = "num" /\ y.k = "num"
         THEN LET q == FracAdd(x.n, x.d, y.n, y.d)
                  l == FracMul(x.la, x.lb, y.la, y.lb)
              IN  Mk("num", q.n, q.d, l.n, l.d)
    ELSE IF IsZero(x) THEN y
    ELSE IF IsZero(y) THEN x
    ELSE Irr

VSub(x, y) == VAdd(x, VNeg(y))

VMul(x, y) ==
    IF IsNaN(x) \/ IsNaN(y) THEN NaN
    ELSE IF IsInf(x) \/ IsInf(y)
         THEN IF IsZero(x) \/ IsZero(y) THEN NaN
              ELSE IF ~IsTracked(x) \/ ~IsTracked(y) THEN Irr
              ELSE InfOfSign(SignOf(x) * SignOf(y))
    ELSE IF IsZero(x) \/ IsZero(y) THEN Zero
    ELSE IF x = One THEN y
    ELSE IF y = One THEN x
    ELSE IF IsTracked(x) /\ IsTracked(y)
         THEN IF x.k = "num" /\ y.k = "num"
              THEN FracMul(x.n, x.d, y.n, y.d)
              ELSE LET a == SignedSq(x)
                       b == SignedSq(y)
                       q == FracMul(a.n, a.d, b.n, b.d)
                   IN  Mk("surd", Sgn(a.n) * Sgn(b.n) * Abs(q.n), q.d, 1, 1)
    ELSE Irr

\* x / y as numpy divides doubles: no exception, a zero divisor gives inf or NaN
VDiv(x, y) ==
    IF IsNaN(x) \/ IsNaN(y) THEN NaN
    ELSE IF IsInf(x) /\ IsInf(y) THEN NaN
    ELSE IF IsInf(y) THEN Zero
    ELSE IF IsZero(y)
         THEN IF IsZero(x) THEN NaN
              ELSE IF ~IsTracked(x) THEN Irr
              ELSE InfOfSign(SignOf(x))
    ELSE IF ~IsTracked(x) \/ ~IsTracked(y) THEN (IF y = One THEN x ELSE Irr)
    ELSE IF IsInf(x) THEN InfOfSign(SignOf(x) * SignOf(y))
    ELSE IF x.k = "num" /\ y.k = "num"
         THEN FracMul(x.n, x.d, Sgn(y.n) * y.d, Abs(y.n))
    ELSE LET a == SignedSq(x)
             b == SignedSq(y)
             q == FracMul(a.n, a.d, Sgn(b.n) * b.d, Abs(b.n))
         IN  Mk("surd", q.n, q.d, 1, 1)

\* math.sqrt / numpy sqrt of a non-negative rational
VSqrt(x) ==
    IF IsNaN(x) THEN NaN
    ELSE IF x.k = "pinf" THEN PInf
    ELSE IF IsPure(x) /\ x.n >= 0 THEN Mk("surd", x.n, x.d, 1, 1)
    ELSE IF IsPure(x) \/ x.k = "ninf" THEN NaN
    ELSE Irr

VAbs(x) == IF IsNaN(x) THEN NaN ELSE IF IsInf(x) THEN PInf
           ELSE IF IsPure(x) THEN Rat(Abs(x.n), x.d) ELSE Irr

\* x < y on tracked values; any comparison with NaN is False
VLt(x, y) ==
    IF IsNaN(x) \/ IsNaN(y) THEN FALSE
    ELSE IF x.k = "pinf" \/ y.k = "ninf" THEN FALSE
    ELSE IF x.k = "ninf" \/ y.k = "pinf" THEN TRUE
    ELSE LET a == SignedSq(x)
             b == SignedSq(y)
         IN  IF x.k = "num" /\ y.k = "num"
             THEN FracLt(x.n, x.d, y.n, y.d)
             ELSE FracLt(a.n, a.d, b.n, b.d)

\* 1 if x > 0, -1 if x < 0, 0 if x = 0 or NaN, 2 when the model cannot tell
\* (a logarithm plus a rational of the opposite sign, or an untracked value)
VSign(x) ==
    IF IsNaN(x) THEN 0
    ELSE IF IsTracked(x) THEN SignOf(x)
    ELSE IF x.k = "irr" THEN 2
    ELSE LET sl == IF x.la > x.lb THEN 1 ELSE -1
         IN  IF Sgn(x.n) = 0 \/ Sgn(x.n) = sl THEN sl ELSE 2

\* ------------------------------------------------- pandas Series helpers
\* a Series is a sequence of values; row t of the program is index t + 1
RECURSIVE SumV(_)
SumV(s) == IF s = <<>> THEN Zero ELSE VAdd(Head(s), SumV(Tail(s)))

IsDefined(v) == ~IsNaN(v)

dropna(s) == SelectSeq(s, IsDefined)

fillna(s, v) == [i \in 1..Len(s) |-> IF IsNaN(s[i]) THEN v ELSE s[i]]

shift(s) == [i \in 1..Len(s) |-> IF i = 1 THEN NaN ELSE s[i - 1]]

diff(s) == [i \in 1..Len(s) |-> IF i = 1 THEN NaN ELSE VSub(s[i], s[i - 1])]

pct_change(s) ==
    [i \in 1..Len(s) |-> IF i = 1 THEN NaN ELSE VSub(VDiv(s[i], s[i - 1]), One)]

astype_float(s) == [i \in 1..Len(s) |-> Int2V(s[i])]

\* numpy.log of a price: ln of a positive number, -inf at 0, NaN below 0
np_log(x) ==
    IF IsNaN(x) \/ x.k = "ninf" THEN NaN
    ELSE IF x.k = "pinf" THEN PInf
    ELSE IF ~IsPure(x) THEN Irr
    ELSE IF x.n = 0 THEN NInf
    ELSE IF x.n < 0 THEN NaN
    ELSE Mk("num", 0, 1, x.n, x.d)

\* the mean of a Series without NaN; the empty mean is NaN
MeanOf(xs) == IF Len(xs) = 0 THEN NaN ELSE VDiv(SumV(xs), Int2V(Len(xs)))

\* Series.mean(): NaN entries are skipped
mean(s) == MeanOf(dropna(s))

Sq(x) == VMul(x, x)

\* sum of squared deviations from m
SumSqDev(xs, m) == SumV([i \in 1..Len(xs) |-> Sq(VSub(xs[i], m))])

\* the sample standard deviation (ddof = 1) of a Series without NaN
StdOf(xs) ==
    IF Len(xs) < 2 THEN NaN
    ELSE VSqrt(VDiv(SumSqDev(xs, MeanOf(xs)), Int2V(Len(xs) - 1)))

\* Series.std(ddof=1): NaN entries are skipped, NaN below two samples
std(s) == StdOf(dropna(s))

\* one more row of a cumulative product p whose defined rows are seen
CumprodStep(p, seen, x) ==
    IF IsNaN(x) THEN Append(p, NaN)
    ELSE IF seen = <<>> THEN Append(p, x)
    ELSE Append(p, VMul(seen[Len(seen)], x))

CumprodAppend(p, x) == CumprodStep(p, dropna(p), x)

\* Series.cumprod(): running product, NaN entries skipped and left NaN
RECURSIVE cumprod(_)
cumprod(s) ==
    IF s = <<>> THEN <<>>
    ELSE CumprodAppend(cumprod(SubSeq(s, 1, Len(s) - 1)), s[Len(s)])

\* the larger of two values, Irr when the model cannot order them
VMax(a, b) ==
    IF IsNaN(a) THEN b ELSE IF IsNaN(b) THEN a
    ELSE IF ~IsTracked(a) \/ ~IsTracked(b) THEN (IF a = b THEN a ELSE Irr)
    ELSE IF VLt(a, b) THEN b ELSE a

VMin(a, b) ==
    IF IsNaN(a) THEN b ELSE IF IsNaN(b) THEN a
    ELSE IF ~IsTracked(a) \/ ~IsTracked(b) THEN (IF a = b THEN a ELSE Irr)
    ELSE IF VLt(b, a) THEN b ELSE a

\* one more row of a running maximum p whose defined rows are seen
CummaxStep(p, seen, x) ==
    IF IsNaN(x) THEN Append(p, NaN)
    ELSE IF seen = <<>> THEN Append(p, x)
    ELSE Append(p, VMax(seen[Len(seen)], x))

CummaxAppend(p, x) == CummaxStep(p, dropna(p), x)

\* Series.cummax(): running maximum, NaN entries skipped and left NaN
RECURSIVE cummax(_)
cummax(s) ==
    IF s = <<>> THEN <<>>
    ELSE CummaxAppend(cummax(SubSeq(s, 1, Len(s) - 1)), s[Len(s)])

\* Series.min(): NaN entries skipped, NaN when nothing is left
RECURSIVE series_min(_)
series_min(s) ==
    IF s = <<>> THEN NaN ELSE VMin(Head(s), series_min(Tail(s)))

\* the window of w rows ending at row i
Window(s, i, w) == SubSeq(s, i - w + 1, i)

\* min_periods = w: the window ending at row i holds w rows, none of them NaN
WindowFull(s, i, w) == i >= w /\ Len(dropna(Window(s, i, w))) = w

\* rolling(w, min_periods=w).mean(): NaN until w rows exist, and wherever the
\* window holds a NaN
rolling_mean(s, w) ==
    [i \in 1..Len(s) |-> IF WindowFull(s, i, w) THEN MeanOf(Window(s, i, w)) ELSE NaN]

\* rolling(w, min_periods=w).std(ddof=1)
rolling_std(s, w) ==
    [i \in 1..Len(s) |-> IF WindowFull(s, i, w) THEN StdOf(Window(s, i, w)) ELSE NaN]

\* ------------------------------------------------- backtest_scaffold.py
TRADING_DAYS == 252

\* math.sqrt(TRADING_DAYS)
SqrtTradingDays == VSqrt(Int2V(TRADING_DAYS))

\* the period-over-period returns of a price column (a sequence of integers)
compute_returns_from_price(series, use_log) ==
    LET fs == astype_float(series)
    IN  IF use_log THEN diff([i \in 1..Len(fs) |-> np_log(fs[i])])
        ELSE pct_change(fs)

\* variant: shift(-1) for shift(1), the signal reads tomorrow's return
generate_signals_Lookahead(close) ==
    [i \in 1..Len(close) |->
        IF i < Len(close) /\ VLt(pct_change(astype_float(close))[i + 1], Zero)
        THEN 1 ELSE 0]

\* variant: <= for <, a day without change also makes the next day long
generate_signals_OrEqual(close) ==
    [i \in 1..Len(close) |->
        IF i > 2 /\ ~VLt(Zero, pct_change(astype_float(close))[i - 1])
        THEN 1 ELSE 0]

\* toy rule: long today if yesterday's close-to-close return was negative;
\* the result is the 'signal' column, integers 0 / 1
generate_signals(close) ==
    LET y_ret == shift(pct_change(astype_float(close)))
    IN  [i \in 1..Len(close) |-> IF VLt(y_ret[i], Zero) THEN 1 ELSE 0]

\* variant: the position is today's signal (the shift is forgotten)
LaggedPosition_NoShift(signal) == astype_float(signal)

\* variant: the first position is left undefined (no fillna)
LaggedPosition_NoFill(signal) == shift(astype_float(signal))

\* pos = signal.shift(1).fillna(0.0)
LaggedPosition(signal) == fillna(shift(astype_float(signal)), Zero)

\* flips = signal.diff().abs().fillna(0.0)
Flips(signal) ==
    LET dsig == diff(astype_float(signal))
    IN  fillna([i \in 1..Len(signal) |-> VAbs(dsig[i])], Zero)

\* int(flips.sum()) for flips that are 0.0 or 1.0
TradeCount(flips) == SumV(flips).n

\* out['strategy_ret'] = pos * out['ret'] - flips * fee
StrategyReturns(pos, ret, flips, fee) ==
    [i \in 1..Len(pos) |-> VSub(VMul(pos[i], ret[i]), VMul(flips[i], fee))]

\* fee = fee_bps / 10000.0
FeeRate(fee_bps) == Rat(fee_bps, 10000)

\* the 'ret' and 'strategy_ret' columns and the trade count, from the columns
\* apply_strategy derives
ApplyColumns(ret, pos, flips, fee) ==
    [ret |-> ret,
     strategy_ret |-> StrategyReturns(pos, ret, flips, fee),
     trade_count |-> TradeCount(flips)]

apply_strategy(signal, price, fee_bps, use_log) ==
    ApplyColumns(fillna(compute_returns_from_price(price, use_log), Zero),
                 LaggedPosition(signal), Flips(signal), FeeRate(fee_bps))

annualize_vol(std_daily) == VMul(std_daily, SqrtTradingDays)

\* variant: the std == 0 test is dropped
annualized_sharpe_NoGuard(mean_daily, std_daily) ==
    VMul(VDiv(mean_daily, std_daily), SqrtTradingDays)

\* if std_daily == 0: return nan
annualized_sharpe(mean_daily, std_daily) ==
    IF std_daily.k = "irr" THEN Irr
    ELSE IF IsZero(std_daily) THEN NaN
    ELSE VMul(VDiv(mean_daily, std_daily), SqrtTradingDays)

annualized_sortino(mean_daily, downside_std_daily) ==
    IF downside_std_daily.k = "irr" THEN Irr
    ELSE IF IsZero(downside_std_daily) THEN NaN
    ELSE VMul(VDiv(mean_daily, downside_std_daily), SqrtTradingDays)

\* 1.0 + a Series
OnePlus(r) == [i \in 1..Len(r) |-> VAdd(One, r[i])]

\* eq = (1 + ret.fillna(0)).cumprod()
EquityCurve(ret) == cumprod(OnePlus(fillna(ret, Zero)))

\* variant: dd = eq / peak, the "- 1" is dropped
Drawdowns_NoMinusOne(eq, peak) == [i \in 1..Len(eq) |-> VDiv(eq[i], peak[i])]

\* dd = (eq / peak) - 1
Drawdowns(eq, peak) == [i \in 1..Len(eq) |-> VSub(VDiv(eq[i], peak[i]), One)]

\* float(dd.min()) if len(dd) else nan
MinOrNaN(dd) == IF Len(dd) # 0 THEN series_min(dd) ELSE NaN

DrawdownOfEquity(eq) == MinOrNaN(Drawdowns(eq, cummax(eq)))

max_drawdown_from_returns(ret) == DrawdownOfEquity(EquityCurve(ret))

\* rs = m / s ; rs * sqrt(TRADING_DAYS)
AnnualizedRatio(m, s) ==
    [i \in 1..Len(m) |-> VMul(VDiv(m[i], s[i]), SqrtTradingDays)]

\* variant: min_periods = 1, a window is used as soon as it holds one sample
PartialWindow(s, i, w) == dropna(SubSeq(s, IF i > w THEN i - w + 1 ELSE 1, i))

rolling_sharpe_annualized_MinPeriods1(excess, window) ==
    AnnualizedRatio(
        [i \in 1..Len(excess) |-> MeanOf(PartialWindow(excess, i, window))],
        [i \in 1..Len(excess) |-> StdOf(PartialWindow(excess, i, window))])

rolling_sharpe_annualized(excess, window) ==
    AnnualizedRatio(rolling_mean(excess, window), rolling_std(excess, window))

IsNegative(v) == VLt(v, Zero)

\* variant: >= for >, a day without gain counts as a hit
IsPositive_OrZero(v) == ~VLt(v, Zero) /\ ~IsNaN(v)

IsPositive(v) == VLt(Zero, v)

\* every entry has a sign the model knows
SignsKnown(xs) == \A i \in 1..Len(xs) : VSign(xs[i]) # 2

\* downside.std(ddof=1) if downside.shape[0] > 1 else nan
DownsideStdOf(downside) == IF Len(downside) > 1 THEN StdOf(downside) ELSE NaN

\* downside = xs[xs < 0.0] and its deviation
DownsideStd(xs) ==
    IF ~SignsKnown(xs) THEN Irr ELSE DownsideStdOf(SelectSeq(xs, IsNegative))

\* (1.0 + xs).cumprod().iloc[-1] - 1.0 if n else nan
CumulativeReturn(xs) ==
    IF Len(xs) # 0 THEN VSub(cumprod(OnePlus(xs))[Len(xs)], One) ELSE NaN

\* float((xs > 0).mean()) if n else nan
HitRate(xs) ==
    IF Len(xs) = 0 THEN NaN
    ELSE IF ~SignsKnown(xs) THEN Irr
    ELSE Rat(Len(SelectSeq(xs, IsPositive)), Len(xs))

\* the record compute_summary_metrics returns, from its local values
SummaryRecord(xs, mean_d, std_d, down_std_d) ==
    [n |-> Len(xs),
     mean_daily_excess |-> mean_d,
     std_daily_excess |-> std_d,
     downside_std_daily |-> down_std_d,
     vol_annualized |-> IF ~IsNaN(std_d) THEN annualize_vol(std_d) ELSE NaN,
     sharpe_annualized |->
        IF ~IsNaN(std_d) THEN annualized_sharpe(mean_d, std_d) ELSE NaN,
     sortino_annualized |->
        IF ~IsNaN(down_std_d) THEN annualized_sortino(mean_d, down_std_d) ELSE NaN,
     max_drawdown |-> max_drawdown_from_returns(xs),
     hit_rate |-> HitRate(xs),
     cumulative_return |-> CumulativeReturn(xs)]

SummaryOf(xs) == SummaryRecord(xs, MeanOf(xs), StdOf(xs), DownsideStd(xs))

compute_summary_metrics(excess) == SummaryOf(dropna(excess))

\* ------------------------------------------------- backtest_scaffold_plus.py
\* the statistics its main computes from the strategy returns
PlusMainRecord(excess, mean_d, std_d) ==
    [mean_d |-> mean_d,
     std_d |-> std_d,
     vol_ann |-> annualize_vol(std_d),
     sharpe_ann |-> annualized_sharpe(mean_d, std_d),
     mdd |-> max_drawdown_from_returns(excess),
     cum_ret |-> CumulativeReturn(excess)]

PlusMainMetrics(excess) == PlusMainRecord(excess, mean(excess), std(excess))

\* ------------------------------------------------- sharpe_demo_plus.py
\* mean_excess / std_excess if std_excess != 0 else nan
SharpeDaily(mean_excess, std_excess) ==
    IF ~IsZero(std_excess) THEN VDiv(mean_excess, std_excess) ELSE NaN

\* sharpe_daily * sqrt(TRADING_DAYS) if not isnan(sharpe_daily) else nan
SharpeAnnual(sharpe_daily) ==
    IF ~IsNaN(sharpe_daily) THEN VMul(sharpe_daily, SqrtTradingDays) ELSE NaN

\* se = std_excess / sqrt(n) if n > 1 else nan
StdError(std_excess, n) ==
    IF n > 1 THEN VDiv(std_excess, VSqrt(Int2V(n))) ELSE NaN

\* mean_excess / se if (se not in (0, nan) and not isnan(se)) else nan
TStat(mean_excess, se) ==
    IF ~IsZero(se) /\ ~IsNaN(se) THEN VDiv(mean_excess, se) ELSE NaN

\* the record compute_basic_stats returns for n >= 2
BasicRecord(n, mean_excess, std_excess, sharpe_daily) ==
    [n |-> n, mean_excess |-> mean_excess, std_excess |-> std_excess,
     sharpe_daily |-> sharpe_daily, sharpe_annual |-> SharpeAnnual(sharpe_daily),
     t_stat |-> TStat(mean_excess, StdError(std_excess, n))]

BasicFrom(n, mean_excess, std_excess) ==
    BasicRecord(n, mean_excess, std_excess, SharpeDaily(mean_excess, std_excess))

BasicStatsOf(xs) ==
    IF Len(xs) < 2
    THEN [n |-> Len(xs), mean_excess |-> NaN, std_excess |-> NaN,
          sharpe_daily |-> NaN, sharpe_annual |-> NaN, t_stat |-> NaN]
    ELSE BasicFrom(Len(xs), MeanOf(xs), StdOf(xs))

compute_basic_stats(excess) == BasicStatsOf(dropna(excess))

rolling_sharpe(excess, window) ==
    AnnualizedRatio(rolling_mean(excess, window), rolling_std(excess, window))

\* ------------------------------------------------- sharpe_demo.py
\* the statistics its main prints
\* sharpe_daily and sharpe_annual of the sharpe_demo main
DemoSharpeDaily(mean_excess, std_excess) ==
    IF ~IsZero(std_excess) THEN VDiv(mean_excess, std_excess) ELSE NaN

DemoSharpeAnnual(sharpe_daily) ==
    IF ~IsNaN(sharpe_daily) THEN VMul(sharpe_daily, SqrtTradingDays) ELSE NaN

DemoRecord(mean_excess, std_excess, sharpe_daily) ==
    [mean_excess |-> mean_excess, std_excess |-> std_excess,
     sharpe_daily |-> sharpe_daily, sharpe_annual |-> DemoSharpeAnnual(sharpe_daily)]

DemoFrom(mean_excess, std_excess) ==
    DemoRecord(mean_excess, std_excess, DemoSharpeDaily(mean_excess, std_excess))

DemoMainStats(excess) == DemoFrom(mean(excess), std(excess))

\* window = max(5, int(args.window))
EffectiveWindow(w) == IF w > 5 THEN w ELSE 5

\* ------------------------------------------------------------ bounds
\* longest price series (rows of the CSV) explored exhaustively
MaxLen == 4

\* longest excess-return series handed to the statistics directly
MaxN == 3

\* longest price series explored with prices that are not positive, and with
\* columns missing from the CSV
MaxRows == 3

\* price levels: a rise (+100%), a fall (-50%) and no change can all occur
Prices == {1, 2}

\* price levels of a CSV whose prices are not validated: negative, zero, positive
AnyPrices == {-1, 0, 1, 2}

\* --fee-bps values: free trading, and 5% per flip
FeeChoices == {0, 500}

\* --window values: below the floor of 5, and the default
WindowArgs == {2, 60}

\* entries of an excess-return series: losses of 200%, 100% and 50%, no
\* change, gains of 50% and 100%, and a missing value
ExcessValues == {Rat(-2, 1), Rat(-1, 1), Rat(-1, 2), Zero, Rat(1, 2), One, NaN}

\* the price series of the two scenarios of the specification
ScenarioClose == <<100, 101, 99, 99, 105>>

ConstantClose(p) == [i \in 1..10 |-> p]

SeqsUpTo(S, n) == UNION {[1..m -> S] : m \in 0..n}

\* a risk-free column: first value missing, then 25% and 0% alternating
RiskFreeColumn(len) ==
    [i \in 1..len |-> IF i = 1 THEN NaN ELSE IF i % 2 = 0 THEN Rat(1, 4) ELSE Zero]

Unset == <<>>

\* ------------------------------------------------------------ state
VARIABLES
    pc,            \* where the run is
    args,          \* parsed command line of the backtest main
    close,         \* df['close']
    open,          \* df['open']
    riskfree,      \* df[args.riskfree_col]
    signal,        \* df['signal']
    ret,           \* df['ret']
    strategy_ret,  \* df['strategy_ret']
    trade_count,
    excess,
    metrics,       \* compute_summary_metrics(excess)
    window,
    roll_sharpe,   \* rolling_sharpe_annualized(excess, window)
    stats,         \* compute_basic_stats(excess)
    roll,          \* rolling_sharpe(excess, window)
    demo,          \* statistics of the sharpe_demo main
    plus,          \* statistics of the backtest_scaffold_plus main
    mdd,           \* max_drawdown_from_returns(excess)
    columns,       \* df.columns as read from the CSV
    printed,       \* a line of the report has been printed
    tearsheet_saved  \* the tearsheet CSV has been written

vars == <<pc, args, close, open, riskfree, signal, ret, strategy_ret, trade_count,
          excess, metrics, window, roll_sharpe, stats, roll, demo, plus, mdd,
          columns, printed, tearsheet_saved>>

frame == <<args, close, open, riskfree>>

statvars == <<stats, roll, demo, plus, mdd>>

\* the header of the CSV and what the run has written
io == <<columns, printed, tearsheet_saved>>

\* the columns the backtest main can read; RiskFreeName is the column
\* --riskfree-col names
RiskFreeName == "rf"

AllColumns == {"date", "close", "open", RiskFreeName}

\* variant: 'close' is not among the required columns
RequiredColumns_NoClose == {"date"}

\* required = {"date", "close"}
RequiredColumns == {"date", "close"}

\* ------------------------------------------- the backtest main (Spec)
ArgsSet ==
    [fee_bps : FeeChoices, use_log_returns : BOOLEAN,
     exec_price : {"open", "close"}, riskfree_col : BOOLEAN]

\* the CSV after read_csv / sort_values: the close column, and the open
\* column when --exec open reads it
Init ==
    /\ pc = "loaded"
    /\ args \in ArgsSet
    /\ close \in SeqsUpTo(Prices, MaxLen) \cup {ScenarioClose}
                \cup {ConstantClose(p) : p \in Prices}
    /\ open \in IF args.exec_price = "open" /\ Len(close) <= MaxLen
               THEN [1..Len(close) -> Prices] ELSE {close}
    /\ riskfree = IF args.riskfree_col THEN RiskFreeColumn(Len(close)) ELSE Unset
    /\ columns = AllColumns /\ printed = FALSE /\ tearsheet_saved = FALSE
    /\ signal = Unset /\ ret = Unset /\ strategy_ret = Unset
    /\ trade_count = 0
    /\ excess = Unset /\ metrics = Unset /\ window = 0 /\ roll_sharpe = Unset
    /\ stats = Unset /\ roll = Unset /\ demo = Unset /\ plus = Unset /\ mdd = Unset

\* df = generate_signals(df)
GenerateSignals ==
    /\ pc = "loaded"
    /\ signal' = generate_signals(close)
    /\ pc' = "signals"
    /\ UNCHANGED <<frame, io, ret, strategy_ret, trade_count, excess, metrics, window,
                   roll_sharpe, statvars>>

PriceColumn == IF args.exec_price = "open" THEN open ELSE close

\* df, trade_count = apply_strategy(df, price_col, args.fee_bps, args.use_log_returns)
ApplyStrategy ==
    /\ pc = "signals"
    /\ LET r == apply_strategy(signal, PriceColumn, args.fee_bps, args.use_log_returns)
       IN  /\ ret' = r.ret
           /\ strategy_ret' = r.strategy_ret
           /\ trade_count' = r.trade_count
    /\ pc' = "applied"
    /\ UNCHANGED <<frame, io, signal, excess, metrics, window, roll_sharpe, statvars>>

\* if args.riskfree_col not in df.columns: raise ValueError
RiskFreeMissing == args.riskfree_col /\ RiskFreeName \notin columns

\* strategy - df[args.riskfree_col].astype(float).fillna(0.0)
LessRiskFree(strategy, rf) ==
    [i \in 1..Len(strategy) |-> VSub(strategy[i], rf[i])]

\* excess = strategy - riskfree.fillna(0), or the strategy returns themselves;
\* a risk-free column that is named but absent ends the run
BuildExcess ==
    /\ pc = "applied"
    /\ IF RiskFreeMissing
       THEN pc' = "error" /\ excess' = excess
       ELSE /\ excess' = IF args.riskfree_col
                         THEN LessRiskFree(strategy_ret, fillna(riskfree, Zero))
                         ELSE strategy_ret
            /\ pc' = "excess"
    /\ UNCHANGED <<frame, io, signal, ret, strategy_ret, trade_count, metrics, window,
                   roll_sharpe, statvars>>

\* metrics = compute_summary_metrics(excess)
SummaryMetrics ==
    /\ pc = "excess"
    /\ metrics' = compute_summary_metrics(excess)
    /\ pc' = "metrics"
    /\ UNCHANGED <<frame, io, signal, ret, strategy_ret, trade_count, excess, window,
                   roll_sharpe, statvars>>

\* roll_sharpe = rolling_sharpe_annualized(excess, max(5, args.window))
RollingSharpe ==
    /\ pc = "metrics"
    /\ \E w \in WindowArgs :
          /\ window' = EffectiveWindow(w)
          /\ roll_sharpe' = rolling_sharpe_annualized(excess, EffectiveWindow(w))
    /\ pc' = "done"
    /\ UNCHANGED <<frame, io, signal, ret, strategy_ret, trade_count, excess, metrics,
                   statvars>>

Next == GenerateSignals \/ ApplyStrategy \/ BuildExcess \/ SummaryMetrics
        \/ RollingSharpe

Spec == Init /\ [][Next]_vars

\* ------------------ the backtest main on any price column (SpecPrices)
\* read_csv accepts any number as a price; the run is the one of Spec
InitPrices ==
    /\ pc = "loaded"
    /\ args \in [fee_bps : FeeChoices, use_log_returns : BOOLEAN,
                 exec_price : {"close"}, riskfree_col : BOOLEAN]
    /\ close \in SeqsUpTo(AnyPrices, MaxRows)
    /\ open = close
    /\ riskfree = IF args.riskfree_col THEN RiskFreeColumn(Len(close)) ELSE Unset
    /\ columns = AllColumns /\ printed = FALSE /\ tearsheet_saved = FALSE
    /\ signal = Unset /\ ret = Unset /\ strategy_ret = Unset
    /\ trade_count = 0
    /\ excess = Unset /\ metrics = Unset /\ window = 0 /\ roll_sharpe = Unset
    /\ stats = Unset /\ roll = Unset /\ demo = Unset /\ plus = Unset /\ mdd = Unset

SpecPrices == InitPrices /\ [][Next]_vars

\* ------------- the backtest main from the CSV to the report (SpecMain)
\* the command line, with --tearsheet given or not
ArgsMain ==
    [fee_bps : {0}, use_log_returns : {FALSE}, exec_price : {"open", "close"},
     riskfree_col : BOOLEAN, tearsheet : BOOLEAN]

\* a CSV with any of the columns; a column that is absent has no values
InitMain ==
    /\ pc = "start"
    /\ args \in ArgsMain
    /\ columns \in SUBSET AllColumns
    /\ close \in IF "close" \in columns THEN SeqsUpTo(Prices, MaxRows) ELSE {Unset}
    /\ open = IF "open" \in columns THEN close ELSE Unset
    /\ riskfree = IF RiskFreeName \in columns THEN RiskFreeColumn(Len(close))
                  ELSE Unset
    /\ printed = FALSE /\ tearsheet_saved = FALSE
    /\ signal = Unset /\ ret = Unset /\ strategy_ret = Unset
    /\ trade_count = 0
    /\ excess = Unset /\ metrics = Unset /\ window = 0 /\ roll_sharpe = Unset
    /\ stats = Unset /\ roll = Unset /\ demo = Unset /\ plus = Unset /\ mdd = Unset

\* read_csv(parse_dates=["date"]) and the two column checks: each raises
\* ValueError when its column is absent
ColumnsPresent ==
    /\ RequiredColumns \subseteq columns
    /\ args.exec_price = "open" => "open" \in columns

CheckColumns ==
    /\ pc = "start"
    /\ pc' = IF ColumnsPresent THEN "loaded" ELSE "error"
    /\ UNCHANGED <<frame, io, signal, ret, strategy_ret, trade_count, excess, metrics,
                   window, roll_sharpe, statvars>>

\* the printed report, and the tearsheet CSV when --tearsheet names a path
Report ==
    /\ pc = "done"
    /\ printed' = TRUE
    /\ tearsheet_saved' = args.tearsheet
    /\ pc' = "reported"
    /\ UNCHANGED <<frame, columns, signal, ret, strategy_ret, trade_count, excess,
                   metrics, window, roll_sharpe, statvars>>

NextMain == CheckColumns \/ GenerateSignals \/ ApplyStrategy \/ BuildExcess
            \/ SummaryMetrics \/ RollingSharpe \/ Report

\* the run moves on: it stops only where it has raised ("error") or returned
\* ("reported").  Every step of NextMain changes pc, and at every other pc a
\* step of NextMain is enabled, so fairness of Proceed is fairness of NextMain.
Proceed ==
    /\ pc \notin {"error", "reported"}
    /\ pc' \in {"loaded", "signals", "applied", "excess", "metrics", "done",
                "error", "reported"}

\* the script runs on until it raises or returns
SpecMain == InitMain /\ [][NextMain]_vars /\ WF_pc(Proceed)

\* ------------------------- the statistics on their own (SpecMetrics)
\* every function of the metrics family applied to one excess-return series
InitMetrics ==
    /\ pc = "input"
    /\ excess \in SeqsUpTo(ExcessValues, MaxN)
    /\ args \in [window : WindowArgs]
    /\ close = Unset /\ open = Unset /\ riskfree = Unset
    /\ columns = {} /\ printed = FALSE /\ tearsheet_saved = FALSE
    /\ signal = Unset /\ ret = Unset /\ strategy_ret = Unset
    /\ trade_count = 0
    /\ metrics = Unset /\ window = 0 /\ roll_sharpe = Unset
    /\ stats = Unset /\ roll = Unset /\ demo = Unset /\ plus = Unset /\ mdd = Unset

pipevars == <<args, close, open, riskfree, signal, ret, strategy_ret, trade_count,
              columns, printed, tearsheet_saved>>

ComputeSummaryMetrics ==
    /\ pc = "input"
    /\ metrics' = compute_summary_metrics(excess)
    /\ pc' = "summary"
    /\ UNCHANGED <<pipevars, excess, window, roll_sharpe, statvars>>

ComputeBasicStats ==
    /\ pc = "summary"
    /\ stats' = compute_basic_stats(excess)
    /\ pc' = "basic"
    /\ UNCHANGED <<pipevars, excess, metrics, window, roll_sharpe, roll, demo, plus, mdd>>

SharpeDemoMain ==
    /\ pc = "basic"
    /\ demo' = DemoMainStats(excess)
    /\ pc' = "demo"
    /\ UNCHANGED <<pipevars, excess, metrics, window, roll_sharpe, stats, roll, plus, mdd>>

PlusMain ==
    /\ pc = "demo"
    /\ plus' = PlusMainMetrics(excess)
    /\ pc' = "plus"
    /\ UNCHANGED <<pipevars, excess, metrics, window, roll_sharpe, stats, roll, demo, mdd>>

MaxDrawdown ==
    /\ pc = "plus"
    /\ mdd' = max_drawdown_from_returns(excess)
    /\ pc' = "drawdown"
    /\ UNCHANGED <<pipevars, excess, metrics, window, roll_sharpe, stats, roll, demo, plus>>

\* both rolling functions, called with the same window
RollingBoth ==
    /\ pc = "drawdown"
    /\ \E w \in 1..(Len(excess) + 1) :
          /\ window' = w
          /\ roll_sharpe' = rolling_sharpe_annualized(excess, w)
          /\ roll' = rolling_sharpe(excess, w)
    /\ pc' = "rolled"
    /\ UNCHANGED <<pipevars, excess, metrics, stats, demo, plus, mdd>>

\* the mains' call: window = max(5, int(args.window)), then the rolling Sharpe
RollingInMains ==
    /\ pc = "drawdown"
    /\ window' = EffectiveWindow(args.window)
    /\ roll_sharpe' = rolling_sharpe_annualized(excess, EffectiveWindow(args.window))
    /\ roll' = rolling_sharpe(excess, EffectiveWindow(args.window))
    /\ pc' = "rolled_main"
    /\ UNCHANGED <<pipevars, excess, metrics, stats, demo, plus, mdd>>

NextMetrics == ComputeSummaryMetrics \/ ComputeBasicStats \/ SharpeDemoMain
               \/ PlusMain \/ MaxDrawdown \/ RollingBoth \/ RollingInMains

SpecMetrics == InitMetrics /\ [][NextMetrics]_vars

\* --------------------- apply_strategy on any signal column (SpecApply)
\* the signal rule is pluggable: apply_strategy is handed any 0/1 column
InitApply ==
    /\ pc = "signals"
    /\ args \in [fee_bps : FeeChoices, use_log_returns : BOOLEAN,
                 exec_price : {"close"}, riskfree_col : {FALSE}]
    /\ close \in SeqsUpTo(Prices, MaxLen)
    /\ open = close
    /\ riskfree = Unset
    /\ columns = {} /\ printed = FALSE /\ tearsheet_saved = FALSE
    /\ signal \in [1..Len(close) -> {0, 1}]
    /\ ret = Unset /\ strategy_ret = Unset
    /\ trade_count = 0
    /\ excess = Unset /\ metrics = Unset /\ window = 0 /\ roll_sharpe = Unset
    /\ stats = Unset /\ roll = Unset /\ demo = Unset /\ plus = Unset /\ mdd = Unset

SpecApply == InitApply /\ [][ApplyStrategy]_vars

\* ------------------------------------------------------------ claims
\* stages of the backtest main at or after apply_strategy / the metrics
Applied == pc \in {"applied", "excess", "metrics", "done"}

Summarised == pc \in {"metrics", "done"}

\* the position the strategy holds in row i: flat in the first row, then the
\* signal of the row before
Position(i) == IF i = 1 THEN 0 ELSE signal[i - 1]

\* the fee apply_strategy deducted in row i: what is missing from the
\* position's return
CostCharged(i) == VSub(VMul(Int2V(Position(i)), ret[i]), strategy_ret[i])

\* C1: apply_strategy holds position 0 in the first row and signal[t-1] in
\* every later row t: without fees the strategy return is 0 in the first row
\* and signal[t-1] * ret[t] after it, and with fees it differs from that by a
\* multiple (0 or 1) of the fee, for every price column and every signal
\* column.
C1_PositionIsLaggedSignal ==
    pc = "applied" =>
        /\ Len(strategy_ret) = Len(signal) /\ Len(ret) = Len(signal)
        /\ \A i \in 1..Len(signal) :
              /\ CostCharged(i) \in {Zero, FeeRate(args.fee_bps)}
              /\ args.fee_bps = 0 =>
                    strategy_ret[i] = VMul(Int2V(Position(i)), ret[i])
              /\ i = 1 => VMul(Int2V(Position(i)), ret[i]) = Zero

\* a run where the lag shows: a row is long on the strength of the row before
\* while its own signal is flat, and the return in that row is not 0
C1_Witness ==
    /\ pc = "applied" /\ args.fee_bps = 0
    /\ \E i \in 2..Len(signal) :
          /\ signal[i - 1] = 1 /\ signal[i] = 0
          /\ ret[i] # Zero /\ strategy_ret[i] = ret[i]
    /\ \E i \in 2..Len(signal) :
          signal[i - 1] = 0 /\ signal[i] = 1 /\ ret[i] # Zero /\ strategy_ret[i] = Zero

\* the signal, position and strategy-return columns of a run on other prices
\* under this run's configuration
OtherColumns(sg, price) ==
    [signal |-> sg,
     position |-> LaggedPosition(sg),
     strategy_ret |->
        apply_strategy(sg, price, args.fee_bps, args.use_log_returns).strategy_ret]

OtherRun(c2, o2) ==
    OtherColumns(generate_signals(c2), IF args.exec_price = "open" THEN o2 ELSE c2)

\* the run on rows 1..t of this run's frame alone
PrefixRun(t) == OtherRun(SubSeq(close, 1, t), SubSeq(open, 1, t))

SameUpTo(t, other) ==
    \A k \in 1..t :
        /\ other.signal[k] = signal[k]
        /\ other.position[k] = Int2V(Position(k))
        /\ other.strategy_ret[k] = strategy_ret[k]

\* C2: no look-ahead. Under the same fee, return mode and execution basis,
\* the signal, position and strategy return of every row k <= t are those of
\* the run on rows 0..t alone: no output of row k reads a price of a later
\* row, so two runs on prices that agree on rows 0..t (both then agree with
\* the run on those rows alone) agree on every output up to row t.
C2_NoLookahead ==
    pc = "applied" =>
        \A t \in 1..Len(close) :
            \A other \in {PrefixRun(t)} : SameUpTo(t, other)

\* a run with returns earned both in its last row and before it: the rows
\* before the last are those of the run without the last row
C2_Witness ==
    /\ pc = "applied"
    /\ Len(close) >= 4
    /\ strategy_ret[Len(close)] # Zero
    /\ \E k \in 1..(Len(close) - 1) : strategy_ret[k] # Zero /\ signal[k] = 1
    /\ \A other \in {PrefixRun(Len(close) - 1)} : SameUpTo(Len(close) - 1, other)

\* the strategy return of row i as the cost model states it: the position's
\* return less the fee on the change of position in that row
FeeOnPositionChange(i) ==
    VMul(Int2V(IF i = 1 THEN 0 ELSE Abs(Position(i) - Position(i - 1))),
         FeeRate(args.fee_bps))

\* C3: in every row t >= 1 the strategy return is position[t] * ret[t] less
\* fee * |position[t] - position[t-1]|, and nothing is charged in row 0: the
\* fee falls in the row where the position changes, so the signal formed in
\* row t leaves strategy_ret[t] alone.
C3_FeeWherePositionChanges ==
    pc = "applied" =>
        \A i \in 1..Len(signal) :
            strategy_ret[i] =
                VSub(VMul(Int2V(Position(i)), ret[i]), FeeOnPositionChange(i))

\* the number of changes of position over the series
RECURSIVE PositionChanges(_)
PositionChanges(i) ==
    IF i <= 1 THEN 0 ELSE Abs(Position(i) - Position(i - 1)) + PositionChanges(i - 1)

\* C4: trade_count is the number of changes of position,
\* the sum over t >= 1 of |position[t] - position[t-1]|.
C4_TradeCountIsPositionChanges ==
    pc = "applied" => trade_count = PositionChanges(Len(signal))

\* a value rounded to four decimals, in units of 0.0001 (half rounds up)
Round4(v) == (2 * v.n * 10000 + v.d) \div (2 * v.d)

\* the scenario run: the five closes, no fee, simple returns, close basis, no
\* risk-free column, metrics computed
ScenarioRun ==
    /\ Summarised
    /\ close = ScenarioClose
    /\ args = [fee_bps |-> 0, use_log_returns |-> FALSE, exec_price |-> "close",
               riskfree_col |-> FALSE]

\* the scenario's returns, positions, strategy returns and cumulative return:
\* returns [undefined, 0.01, -0.0198, 0.0, 0.0606], position [0, 0, 0, 0, 1],
\* strategy_return [0, 0, 0, 0, 0.0606], cumulative return 6.06%
ScenarioNumbers ==
    /\ IsNaN(compute_returns_from_price(close, FALSE)[1])
    /\ \A i \in 2..5 : ret[i] = compute_returns_from_price(close, FALSE)[i]
    /\ ret = <<Zero, Rat(1, 100), Rat(-2, 101), Zero, Rat(2, 33)>>
    /\ [i \in 2..5 |-> Round4(ret[i])] = [i \in 2..5 |-> <<0, 100, -198, 0, 606>>[i]]
    /\ [i \in 1..5 |-> Position(i)] = <<0, 0, 0, 0, 1>>
    /\ strategy_ret = <<Zero, Zero, Zero, Zero, Rat(2, 33)>>
    /\ Round4(strategy_ret[5]) = 606
    /\ excess = strategy_ret
    /\ metrics.cumulative_return = Rat(2, 33)
    /\ Round4(metrics.cumulative_return) = 606

\* C5 as stated: the scenario gives signal = [0, 0, 0, 1, 1] with the numbers
\* above.
C5_ScenarioAsStated ==
    ScenarioRun => ScenarioNumbers /\ signal = <<0, 0, 0, 1, 1>>

\* C5, amended: on closes [100, 101, 99, 99, 105] with fee_bps = 0, simple
\* returns and the toy rule, returns = [undefined, 0.01, -0.0198, 0.0,
\* 0.0606], signal = [0, 0, 0, 1, 0] (the return of row 3 is 0.0, which is
\* not below 0, so row 4 is flat), position = [0, 0, 0, 0, 1],
\* strategy_return = [0, 0, 0, 0, 0.0606] and the cumulative return is 6.06%.
C5_Scenario ==
    ScenarioRun => ScenarioNumbers /\ signal = <<0, 0, 0, 1, 0>>

C5_Witness == ScenarioRun /\ trade_count = 2

\* a constant price series of length 10 run without a risk-free column, with
\* any fee, either return mode and either execution basis
ConstantRun ==
    /\ Summarised
    /\ Len(close) = 10
    /\ \A i \in 1..10 : close[i] = close[1] /\ open[i] = open[1]
    /\ ~args.riskfree_col

\* what the constant series gives beside the standard deviation
ConstantNumbers ==
    /\ \A i \in 1..10 :
          ret[i] = Zero /\ strategy_ret[i] = Zero /\ excess[i] = Zero
    /\ metrics.n = 10
    /\ IsNaN(metrics.sharpe_annualized)
    /\ IsNaN(metrics.sortino_annualized)
    /\ metrics.max_drawdown = Zero
    /\ metrics.hit_rate = Zero

\* C6 as stated: for a constant price series of length 10 the standard
\* deviation is reported as undefined.
C6_ConstantAsStated ==
    ConstantRun => ConstantNumbers /\ IsNaN(metrics.std_daily_excess)

\* C6, amended: for a constant price series of length 10 (any fee_bps) every
\* return and every strategy/excess return is 0, std is the defined value 0
\* (ten samples), annualized Sharpe and Sortino are undefined,
\* max_drawdown = 0 and hit_rate is the defined value 0.0.
C6_Constant ==
    ConstantRun =>
        /\ ConstantNumbers
        /\ IsZero(metrics.std_daily_excess) /\ ~IsNaN(metrics.std_daily_excess)
        /\ IsZero(metrics.vol_annualized)
        /\ IsZero(metrics.mean_daily_excess)

C6_Witness == ConstantRun /\ args.fee_bps # 0 /\ args.use_log_returns


\* ------------------------------------------------------------------ C7
\* the equity curve: equity[t] = product over i <= t of
\* (1 + excess[i]), an undefined entry counting as 0
RECURSIVE EquityAt(_)
EquityAt(t) ==
    IF t = 0 THEN One
    ELSE VMul(EquityAt(t - 1),
              VAdd(One, IF IsNaN(excess[t]) THEN Zero ELSE excess[t]))

EquityNonDecreasing ==
    \A t \in 2..Len(excess) : ~VLt(EquityAt(t), EquityAt(t - 1))

AtMostZero(v) == ~IsNaN(v) /\ ~VLt(Zero, v)

\* v <= 0, and v = 0 iff the equity curve never falls
DrawdownAsClaimed(v) ==
    /\ AtMostZero(v)
    /\ IsZero(v) <=> EquityNonDecreasing

DrawdownsComputed == pc \in {"drawdown", "rolled"} /\ Len(excess) >= 1

EquityStartsPositive == VLt(Zero, EquityAt(1))

NoUndefinedEntries == \A i \in 1..Len(excess) : ~IsNaN(excess[i])

\* only the last element of r can be defined, and it is the value whole
LastIsWholeSeries(r, whole) ==
    /\ Len(r) = Len(excess)
    /\ \A i \in 1..(Len(r) - 1) : IsNaN(r[i])
    /\ r[Len(r)] = whole

\* C8: for a series of length n without undefined entries, the rolling Sharpe
\* with window = n is undefined everywhere but at the last element, and the
\* last element equals the whole-series annualized Sharpe of
\* compute_summary_metrics / compute_basic_stats (undefined when that is).
C8_RollingEqualsWholeSeries ==
    (pc = "rolled" /\ Len(excess) >= 1 /\ window = Len(excess)
        /\ NoUndefinedEntries) =>
        /\ LastIsWholeSeries(roll_sharpe, metrics.sharpe_annualized)
        /\ LastIsWholeSeries(roll, stats.sharpe_annual)

\* ------------------------------------------------------------------ C9
AllIdentical(xs) == \A i, j \in 1..Len(xs) : xs[i] = xs[j]

\* the sample variance, from the sums of the samples and of their squares
VarianceOf(xs) ==
    VDiv(VSub(SumV([i \in 1..Len(xs) |-> Sq(xs[i])]),
              VDiv(Sq(SumV(xs)), Int2V(Len(xs)))),
         Int2V(Len(xs) - 1))

\* the signed square of (mean / std) * sqrt(252)
SharpeSquared(xs) ==
    VDiv(VMul(Int2V(252), SignedSq(VDiv(SumV(xs), Int2V(Len(xs))))),
         VarianceOf(xs))

\* v is undefined when xs has fewer than two samples or only one value, and
\* the finite number (mean / std) * sqrt(252) otherwise
SharpeAsSpecified(v, xs) ==
    IF Len(xs) < 2 \/ AllIdentical(xs) THEN IsNaN(v)
    ELSE v.k \in {"num", "surd"} /\ SignedSq(v) = SharpeSquared(xs)

AllSharpes(xs) ==
    /\ SharpeAsSpecified(metrics.sharpe_annualized, xs)
    /\ SharpeAsSpecified(stats.sharpe_annual, xs)
    /\ SharpeAsSpecified(demo.sharpe_annual, xs)
    /\ SharpeAsSpecified(plus.sharpe_ann, xs)

AllUndefined(S) == \A v \in S : IsNaN(v)

\* count and mean of a metrics record, and what a single sample leaves
\* undefined
LocalDegeneracy(xs, count, mean_value, from_two_samples) ==
    /\ count = Len(xs)
    /\ IF Len(xs) = 0 THEN IsNaN(mean_value)
       ELSE mean_value = VDiv(SumV(xs), Int2V(Len(xs)))
    /\ Len(xs) = 1 => AllUndefined(from_two_samples)

\* C10: for n >= 1 defined samples both compute_summary_metrics and
\* compute_basic_stats report count = n and the arithmetic mean; the mean is
\* undefined only for n = 0, and for n = 1 only std, vol, Sharpe, Sortino and
\* t_stat are undefined.
C10_MeanDefinedFromOneSample ==
    pc \in {"basic", "demo", "plus", "drawdown", "rolled"} =>
        /\ LocalDegeneracy(dropna(excess), metrics.n, metrics.mean_daily_excess,
                           {metrics.std_daily_excess, metrics.vol_annualized,
                            metrics.sharpe_annualized,
                            metrics.sortino_annualized})
        /\ LocalDegeneracy(dropna(excess), stats.n, stats.mean_excess,
                           {stats.std_excess, stats.sharpe_annual,
                            stats.t_stat})


\* ----------------------------------------------------------------- C11
NonPositivePrice == \E i \in 1..Len(PriceColumn) : PriceColumn[i] <= 0

\* C11: under logarithmic returns a price <= 0 in the selected price column
\* fails the return computation: the run produces no strategy returns and no
\* metrics (it does not go on with the undefined or infinite returns).
C11_LogModeRejectsNonPositivePrice ==
    (args.use_log_returns /\ NonPositivePrice) =>
        /\ pc \notin {"applied", "excess", "metrics", "done"}
        /\ strategy_ret = Unset /\ excess = Unset /\ metrics = Unset


\* ----------------------------------------------------------------- C12
\* a column the run needs is absent from the CSV
MissingColumn ==
    \/ "date" \notin columns
    \/ "close" \notin columns
    \/ args.exec_price = "open" /\ "open" \notin columns
    \/ args.riskfree_col /\ RiskFreeName \notin columns

NothingEvaluated ==
    /\ metrics = Unset /\ roll_sharpe = Unset /\ window = 0
    /\ ~printed /\ ~tearsheet_saved
    /\ pc \notin {"metrics", "done", "reported"}

WindowIncomplete(i, w) ==
    \/ i < w
    \/ \E j \in 1..i : j > i - w /\ IsNaN(excess[j])

\* r has the rows of excess, and is undefined wherever the window is incomplete
RollingShape(r, w) ==
    /\ Len(r) = Len(excess)
    /\ \A i \in 1..Len(r) : WindowIncomplete(i, w) => IsNaN(r[i])
    /\ Len(excess) < w => \A i \in 1..Len(r) : IsNaN(r[i])

FlooredAtFive(requested) == IF requested >= 5 THEN requested ELSE 5

\* C13: for a series of length n and a window w both rolling Sharpe functions
\* return n elements; element t is undefined for t < w - 1 and wherever the w
\* samples ending at t include an undefined one, so for n < w every element is
\* undefined.  The mains call them with w = max(5, requested window).
C13_RollingShape ==
    /\ pc \in {"rolled", "rolled_main"} =>
          RollingShape(roll_sharpe, window) /\ RollingShape(roll, window)
    /\ pc = "rolled_main" => window = FlooredAtFive(args.window)

\* a window of 2 over three rows, the last one undefined: only the middle
\* element is defined
C13_Witness ==
    /\ pc = "rolled"
    /\ excess = <<Zero, One, NaN>>
    /\ window = 2
    /\ IsNaN(roll_sharpe[1]) /\ ~IsNaN(roll_sharpe[2]) /\ IsNaN(roll_sharpe[3])
    /\ roll = roll_sharpe


\* ----------------------------------------------------------------- C14
ExcessBuilt == pc \in {"metrics", "done"}

\* no undefined entry went into compute_summary_metrics, and every price row
\* is a sample
EveryRowASample ==
    /\ Len(excess) = Len(close)
    /\ \A i \in 1..Len(excess) : ~IsNaN(excess[i])
    /\ metrics.n = Len(close)

\* C14 as stated: the excess series handed to compute_summary_metrics never
\* holds an undefined entry, so the reported n is the number of price rows.
C14_EveryRowCountsAsStated == ExcessBuilt => EveryRowASample

PositivePrices == \A i \in 1..Len(PriceColumn) : PriceColumn[i] > 0

\* C14: when every price of the selected price column is positive, the excess
\* series handed to compute_summary_metrics holds no undefined entry (the first
\* return, the first position and missing risk-free values are 0), so the
\* reported n is the number of price rows.
C14_EveryRowCounts == (ExcessBuilt /\ PositivePrices) => EveryRowASample

\* three rows, the first one flat and without a return, a risk-free column
\* whose first value is missing: n = 3
C14_Witness ==
    /\ pc = "metrics"
    /\ close = <<2, 1, 2>>
    /\ args.riskfree_col /\ IsNaN(riskfree[1])
    /\ excess[1] = Zero
    /\ metrics.n = 3

====
